---- MODULE Spec2Model ----
(***************************************************************************)
(* Backtracking Sudoku solvers of the repository, as one state machine.    *)
(*                                                                         *)
(* The six source files are six variants of sudoku_solver(sudoku):         *)
(*   "final"     sudoku_final_solution.py          closure, list, in place *)
(*   "approach1" sudoku_approach1.py               class, list, in place   *)
(*   "with_heap" sudoku_with_heap.py               class, heap, in place   *)
(*   "approach3" sudoku_approach3_samestate_heap.py class, heap, in place  *)
(*   "approach2" sudoku_approach2_min_row_col.py   class, copy on place    *)
(*   "newstate"  sudoku_approach1_newstate.py      class, copy on place    *)
(* The variable variant says which file is running.                        *)
(*                                                                         *)
(* The board-size parameter n of the classes (default 9) is instantiated   *)
(* with 4: a 4x4 board with 2x2 sub grids and the digits 1..4, so that the *)
(* whole search tree of every enumerated input is explored.  Every         *)
(* occurrence of 9, 10 and 3 in the sources is n, n+1 and sqrt(n) here.    *)
(*                                                                         *)
(* The grid handed to sudoku_solver is a numpy array, as the docstrings    *)
(* say: grid.copy() is a deep copy.                                        *)
(***************************************************************************)
EXTENDS Integers, Sequences, FiniteSets, TLC

n == 4

\* Sparse inputs: number of cells of the grid that may hold a clue.
ClueCells == 5

\* Dense inputs: number of cells of a solved grid that may be changed.
FreeCells == 6

n_sq_root == CHOOSE k \in 1..n : k * k = n

Rows == 0..(n - 1)
Cells == Rows \X Rows
Digits == 1..n
GridKeys == (0..(n_sq_root - 1)) \X (0..(n_sq_root - 1))

ListVariants == {"final", "approach1", "newstate"}
HeapVariants == {"with_heap", "approach3"}
CopyVariants == {"approach2", "newstate"}
ClassVariants == {"approach1", "with_heap", "approach3", "approach2", "newstate"}

VARIABLES
  variant,       \* which source file's sudoku_solver is running
  sudoku,        \* the grid as the caller passed it (never changes)
  sudoku_state,  \* the state object of the active depth_first_search call
  stack,         \* the suspended depth_first_search activations, outermost first
  pc,            \* "start", "enter", "loop", "failed", "found", "done", "raised"
  cell,          \* (row, col) of the active activation
  digit,         \* loop variable of the active activation
  result,        \* what sudoku_solver returned
  entered,       \* depth_first_search has been called
  placed,        \* some digit has been placed
  popped         \* choose_cell has popped from a set of two or more cells

vars == <<variant, sudoku, sudoku_state, stack, pc, cell, digit, result, entered, placed, popped>>

(***************************************************************************)
(* The grids handed to sudoku_solver.                                      *)
(*   SparseInputs: the cells ClueOrder[1..ClueCells] hold any of 0..n and  *)
(*     every other cell is empty: deep searches, long backtracking.        *)
(*   DenseInputs: the cells FreeOrder[1..FreeCells] hold any of 0..n and   *)
(*     every other cell that of the solved grid Base: puzzles with one     *)
(*     completion, with two (the cells 2..5 of FreeOrder are a rectangle   *)
(*     of Base whose two digits can be swapped), with none.                *)
(***************************************************************************)
ClueOrder ==
  << <<2, 3>>, <<3, 2>>, <<3, 1>>, <<0, 3>>, <<1, 1>>, <<1, 0>>, <<0, 0>>, <<2, 2>>,
     <<3, 3>>, <<0, 1>>, <<1, 2>>, <<2, 0>>, <<0, 2>>, <<1, 3>>, <<2, 1>>, <<3, 0>> >>

FreeOrder ==
  << <<0, 0>>, <<0, 1>>, <<0, 3>>, <<1, 1>>, <<1, 3>>, <<1, 0>>, <<0, 2>>, <<1, 2>>,
     <<2, 0>>, <<2, 1>>, <<2, 2>>, <<2, 3>>, <<3, 0>>, <<3, 1>>, <<3, 2>>, <<3, 3>> >>

BaseRows == << <<1, 2, 3, 4>>, <<3, 4, 1, 2>>, <<2, 1, 4, 3>>, <<4, 3, 2, 1>> >>
Base == [c \in Cells |-> BaseRows[c[1] + 1][c[2] + 1]]

IndexIn(order, c) == CHOOSE i \in 1..Len(order) : order[i] = c

SparseInputs ==
  { [c \in Cells |-> IF IndexIn(ClueOrder, c) <= ClueCells
                       THEN f[IndexIn(ClueOrder, c)] ELSE 0] :
      f \in [1..ClueCells -> 0..n] }

DenseInputs ==
  { [c \in Cells |-> IF IndexIn(FreeOrder, c) <= FreeCells
                       THEN f[IndexIn(FreeOrder, c)] ELSE Base[c]] :
      f \in [1..FreeCells -> 0..n] }

Inputs == SparseInputs \cup DenseInputs

invalid_sudoku == [c \in Cells |-> -1]

NoCell == <<n, n>>
NoResult == "none"

(***************************************************************************)
(* Python containers.                                                      *)
(***************************************************************************)
\* dict: a function whose domain is the set of keys
EmptyDict == [k \in {} |-> 0]
DictPut(d, k, v) == [x \in (DOMAIN d) \cup {k} |-> IF x = k THEN v ELSE d[x]]

\* tuple comparison (row, col) < (row2, col2)
tuple_lt(a, b) == a[1] < b[1] \/ (a[1] = b[1] /\ a[2] < b[2])

\* heapq._siftdown(heap, startpos, pos), positions counted from 1
RECURSIVE sift(_, _, _, _)
sift(heap, startpos, pos, newitem) ==
  IF pos > startpos /\ tuple_lt(newitem, heap[pos \div 2])
    THEN sift([heap EXCEPT ![pos] = heap[pos \div 2]], startpos, pos \div 2, newitem)
    ELSE [heap EXCEPT ![pos] = newitem]

siftdown(heap, startpos, pos) == sift(heap, startpos, pos, heap[pos])

heappush(heap, item) == siftdown(Append(heap, item), 1, Len(heap) + 1)

\* list.remove(x): deletes the first occurrence of x (x is in the list at every call)
list_remove(s, x) ==
  LET i == CHOOSE j \in 1..Len(s) : s[j] = x /\ \A k \in 1..(j - 1) : s[k] # x
  IN  SubSeq(s, 1, i - 1) \o SubSeq(s, i + 1, Len(s))

\* list.pop(): deletes the last element
list_pop(s) == SubSeq(s, 1, Len(s) - 1)

(***************************************************************************)
(* The state object.                                                       *)
(***************************************************************************)
grid_key(row, col) == <<row \div n_sq_root, col \div n_sq_root>>

\* the fields as __init__ leaves them before _initialize_state runs
new_state_object(grid) ==
  [ board |-> grid,
    row_to_seen_vals |-> [r \in Rows |-> {}],
    col_to_seen_vals |-> [c \in Rows |-> {}],
    grid_to_cells |-> [k \in GridKeys |-> {}],
    empty_cells |-> <<>>,
    col_to_missing_rows |-> [c \in Rows |-> {}],
    min_empty_row |-> n,
    min_empty_col |-> n,
    row_to_empty_cells |-> EmptyDict,
    col_to_empty_cells_count |-> EmptyDict ]

\* mutant: the sub grid is not looked at
is_unsolvable_no_sub_grid(st, row, col, val) ==
  \/ val \in st.col_to_seen_vals[col]
  \/ val \in st.row_to_seen_vals[row]

\* mutant: the row is not looked at
is_unsolvable_no_row(st, row, col, val) ==
  \/ val \in st.col_to_seen_vals[col]
  \/ val \in st.grid_to_cells[grid_key(row, col)]

is_unsolvable(st, row, col, val) ==
  \/ val \in st.col_to_seen_vals[col]
  \/ val \in st.row_to_seen_vals[row]
  \/ val \in st.grid_to_cells[grid_key(row, col)]

add_seen(st, row, col, val) ==
  [st EXCEPT !.col_to_seen_vals[col] = @ \cup {val},
             !.row_to_seen_vals[row] = @ \cup {val},
             !.grid_to_cells[grid_key(row, col)] = @ \cup {val}]

discard_seen(st, row, col, val) ==
  [st EXCEPT !.row_to_seen_vals[row] = @ \ {val},
             !.col_to_seen_vals[col] = @ \ {val},
             !.grid_to_cells[grid_key(row, col)] = @ \ {val}]

\* mutant: the empty cell goes to the front of empty_cells
list_scan_empty_prepend(st, row, col) ==
  [st EXCEPT !.empty_cells = <<(<<row, col>>)>> \o @]

\* _initialize_state, the branch val == 0, per variant
list_scan_empty(st, row, col) ==
  [st EXCEPT !.empty_cells = Append(@, <<row, col>>)]

heap_scan_empty(st, row, col) ==
  [st EXCEPT !.col_to_missing_rows[col] = @ \cup {row},
             !.empty_cells = heappush(@, <<row, col>>)]

min_row_col_scan_empty(st, row, col) ==
  LET rte == DictPut(st.row_to_empty_cells, row,
                     (IF row \in DOMAIN st.row_to_empty_cells
                        THEN st.row_to_empty_cells[row] ELSE {}) \cup {<<row, col>>})
      ctc == DictPut(st.col_to_empty_cells_count, col,
                     (IF col \in DOMAIN st.col_to_empty_cells_count
                        THEN st.col_to_empty_cells_count[col] ELSE 0) + 1)
      mer == IF \/ st.min_empty_row \notin DOMAIN rte
                \/ Cardinality(rte[row]) < Cardinality(rte[st.min_empty_row])
               THEN row ELSE st.min_empty_row
      mec == IF \/ st.min_empty_col \notin DOMAIN ctc
                \/ ctc[col] < ctc[st.min_empty_col]
               THEN col ELSE st.min_empty_col
  IN  [st EXCEPT !.row_to_empty_cells = rte,
                 !.col_to_empty_cells_count = ctc,
                 !.min_empty_row = mer,
                 !.min_empty_col = mec]

scan_empty(v, st, row, col) ==
  CASE v \in ListVariants -> list_scan_empty(st, row, col)
    [] v \in HeapVariants -> heap_scan_empty(st, row, col)
    [] v = "approach2" -> min_row_col_scan_empty(st, row, col)

\* _initialize_state from cell number k on (row-major); duplicate: the
\* ValueError of the classes, the early return of solve_sudoku
RECURSIVE initialize_state(_, _, _)
initialize_state(v, st, k) ==
  IF k = n * n THEN [state |-> st, duplicate |-> FALSE]
  ELSE LET row == k \div n
           col == k % n
           val == st.board[<<row, col>>]
       IN  IF val = 0 THEN initialize_state(v, scan_empty(v, st, row, col), k + 1)
           ELSE IF is_unsolvable(st, row, col, val)
                  THEN [state |-> st, duplicate |-> TRUE]
                  ELSE initialize_state(v, add_seen(st, row, col, val), k + 1)

\* SudokuState(grid) / PartialSudokuState(grid)
construct(v, grid) == initialize_state(v, new_state_object(grid), 0)

is_goal_state(v, st) ==
  IF v = "approach2" THEN DOMAIN st.row_to_empty_cells = {}
                     ELSE Len(st.empty_cells) = 0


(***************************************************************************)
(* place_digit and revert_state, per variant.                              *)
(***************************************************************************)
\* mutant: the placed digit is not recorded in col_to_seen_vals
final_place_no_col(st, row, col, val) ==
  [st EXCEPT !.board[<<row, col>>] = val,
             !.empty_cells = list_pop(@),
             !.row_to_seen_vals[row] = @ \cup {val},
             !.grid_to_cells[grid_key(row, col)] = @ \cup {val}]

\* mutant: the filled cell is not popped from empty_cells
final_place_no_pop(st, row, col, val) ==
  add_seen([st EXCEPT !.board[<<row, col>>] = val], row, col, val)

\* sudoku_final_solution.py: the placement inlined in depth_first_search
final_place(st, row, col, val) ==
  add_seen([st EXCEPT !.board[<<row, col>>] = val,
                      !.empty_cells = list_pop(@)], row, col, val)

\* mutant: the reverted digit stays in row_to_seen_vals
final_undo_keeps_row(st, row, col, val) ==
  [st EXCEPT !.board[<<row, col>>] = 0,
             !.empty_cells = Append(@, <<row, col>>),
             !.col_to_seen_vals[col] = @ \ {val},
             !.grid_to_cells[grid_key(row, col)] = @ \ {val}]

\* mutant: the reverted digit stays in the grid
final_undo_keeps_board(st, row, col, val) ==
  discard_seen([st EXCEPT !.empty_cells = Append(@, <<row, col>>)], row, col, val)

\* sudoku_final_solution.py: the undo inlined in depth_first_search
final_undo(st, row, col, val) ==
  discard_seen([st EXCEPT !.board[<<row, col>>] = 0,
                          !.empty_cells = Append(@, <<row, col>>)], row, col, val)

approach1_place_digit(st, row, col, val) ==
  add_seen([st EXCEPT !.board[<<row, col>>] = val,
                      !.empty_cells = list_pop(@)], row, col, val)

approach1_revert_state(st, row, col, val) ==
  discard_seen([st EXCEPT !.empty_cells = Append(@, <<row, col>>)], row, col, val)

with_heap_place_digit(st, row, col, val) ==
  LET s == add_seen([st EXCEPT !.board[<<row, col>>] = val,
                               !.empty_cells = list_remove(@, <<row, col>>)],
                    row, col, val)
  IN  [s EXCEPT !.col_to_missing_rows[col] = @ \ {row}]

with_heap_revert_state(st, row, col, val) ==
  LET s == discard_seen([st EXCEPT !.empty_cells = heappush(@, <<row, col>>)],
                        row, col, val)
  IN  [s EXCEPT !.col_to_missing_rows[col] = @ \cup {row}]

\* mutant: the row of the filled cell stays in col_to_missing_rows
approach3_place_digit_keeps_missing_row(st, row, col, val) ==
  add_seen([st EXCEPT !.board[<<row, col>>] = val,
                      !.empty_cells = list_remove(@, <<row, col>>)],
           row, col, val)

approach3_place_digit(st, row, col, val) ==
  LET s == add_seen([st EXCEPT !.board[<<row, col>>] = val,
                               !.empty_cells = list_remove(@, <<row, col>>)],
                    row, col, val)
  IN  [s EXCEPT !.col_to_missing_rows[col] = @ \ {row}]

\* mutant: the revert leaves the digit on the board
approach3_revert_state_keeps_board(st, row, col, val) ==
  LET s == discard_seen([st EXCEPT !.empty_cells = heappush(@, <<row, col>>)],
                        row, col, val)
  IN  [s EXCEPT !.col_to_missing_rows[col] = @ \cup {row}]

approach3_revert_state(st, row, col, val) ==
  LET s == discard_seen([st EXCEPT !.board[<<row, col>>] = 0,
                                   !.empty_cells = heappush(@, <<row, col>>)],
                        row, col, val)
  IN  [s EXCEPT !.col_to_missing_rows[col] = @ \cup {row}]

\* the copy-on-place variants build a new state object from a copy of the
\* board; the result is construct's: the new object and whether it raised
copy_place_digit(v, st, row, col, val) ==
  construct(v, [st.board EXCEPT ![<<row, col>>] = val])

copy_revert_state(v, st, row, col) ==
  construct(v, [st.board EXCEPT ![<<row, col>>] = 0])

place_digit(v, st, row, col, val) ==
  CASE v = "final" -> final_place(st, row, col, val)
    [] v = "approach1" -> approach1_place_digit(st, row, col, val)
    [] v = "with_heap" -> with_heap_place_digit(st, row, col, val)
    [] v = "approach3" -> approach3_place_digit(st, row, col, val)

revert_state(v, st, row, col, val) ==
  CASE v = "final" -> final_undo(st, row, col, val)
    [] v = "approach1" -> approach1_revert_state(st, row, col, val)
    [] v = "with_heap" -> with_heap_revert_state(st, row, col, val)
    [] v = "approach3" -> approach3_revert_state(st, row, col, val)

(***************************************************************************)
(* choose_cell: the set of outcomes [cell, state], the state as the call   *)
(* leaves it.                                                              *)
(***************************************************************************)
list_choose_cell(st) ==
  {[cell |-> st.empty_cells[Len(st.empty_cells)], state |-> st]}

\* heapq.nsmallest(1, empty_cells, key) is min(empty_cells, key=key): the
\* first element of the list, in list order, whose key is minimal
heap_choose_cell(st) ==
  LET key(i) == Cardinality(st.col_to_missing_rows[st.empty_cells[i][2]])
      idx == 1..Len(st.empty_cells)
      i == CHOOSE j \in idx : /\ \A k \in idx : key(j) <= key(k)
                              /\ \A k \in 1..(j - 1) : key(k) > key(j)
  IN  {[cell |-> st.empty_cells[i], state |-> st]}

\* set.pop() removes and returns an arbitrary element of the set
min_row_col_choose_cell(st) ==
  LET mer == st.min_empty_row
      mec == st.min_empty_col
  IN  IF <<mer, mec>> \in st.row_to_empty_cells[mer]
        THEN {[cell |-> <<mer, mec>>, state |-> st]}
        ELSE {[cell |-> c, state |-> [st EXCEPT !.row_to_empty_cells[mer] = @ \ {c}]] :
                c \in st.row_to_empty_cells[mer]}

choose_cell(v, st) ==
  CASE v \in ListVariants -> list_choose_cell(st)
    [] v \in HeapVariants -> heap_choose_cell(st)
    [] v = "approach2" -> min_row_col_choose_cell(st)

(***************************************************************************)
(* sudoku_solver and depth_first_search.                                   *)
(***************************************************************************)
Init(variants, inputs) ==
  /\ variant \in variants
  /\ sudoku \in inputs
  /\ sudoku_state = new_state_object(sudoku)
  /\ stack = <<>>
  /\ pc = "start"
  /\ cell = NoCell
  /\ digit = 0
  /\ result = NoResult
  /\ entered = FALSE
  /\ placed = FALSE
  /\ popped = FALSE

\* solve_sudoku's scan / SudokuState(sudoku); a duplicate clue ends the call
\* with invalid_sudoku, otherwise depth_first_search is called
Construct ==
  /\ pc = "start"
  /\ LET c == construct(variant, sudoku)
     IN  /\ sudoku_state' = c.state
         /\ IF c.duplicate
              THEN /\ pc' = "done"
                   /\ result' = invalid_sudoku
                   /\ entered' = entered
              ELSE /\ pc' = "enter"
                   /\ result' = result
                   /\ entered' = TRUE
  /\ UNCHANGED <<variant, sudoku, stack, cell, digit, placed, popped>>

\* if sudoku_state.is_goal_state(): return sudoku_state
Goal ==
  /\ pc = "enter"
  /\ is_goal_state(variant, sudoku_state)
  /\ pc' = "found"
  /\ UNCHANGED <<variant, sudoku, sudoku_state, stack, cell, digit, result, entered, placed, popped>>

\* row, col = sudoku_state.choose_cell(); for digit in range(1, n + 1)
ChooseCell ==
  /\ pc = "enter"
  /\ ~is_goal_state(variant, sudoku_state)
  /\ \E o \in choose_cell(variant, sudoku_state) :
       /\ cell' = o.cell
       /\ sudoku_state' = o.state
  /\ digit' = 1
  /\ pc' = "loop"
  /\ popped' = (popped \/ Cardinality(choose_cell(variant, sudoku_state)) > 1)
  /\ UNCHANGED <<variant, sudoku, stack, result, entered, placed>>

\* the digit is already in the row, the column or the sub grid: next digit
SkipDigit ==
  /\ pc = "loop"
  /\ digit <= n
  /\ is_unsolvable(sudoku_state, cell[1], cell[2], digit)
  /\ digit' = digit + 1
  /\ UNCHANGED <<variant, sudoku, sudoku_state, stack, pc, cell, result, entered, placed, popped>>

\* place the digit and call depth_first_search on the outcome
PlaceDigit ==
  /\ pc = "loop"
  /\ digit <= n
  /\ ~is_unsolvable(sudoku_state, cell[1], cell[2], digit)
  /\ placed' = TRUE
  /\ IF variant \in CopyVariants
       THEN LET c == copy_place_digit(variant, sudoku_state, cell[1], cell[2], digit)
            IN  IF c.duplicate
                  THEN /\ pc' = "done"
                       /\ result' = invalid_sudoku
                       /\ UNCHANGED <<sudoku_state, stack, cell, digit>>
                  ELSE /\ stack' = Append(stack, [cell |-> cell, digit |-> digit,
                                                  new_state |-> c.state])
                       /\ sudoku_state' = c.state
                       /\ pc' = "enter"
                       /\ cell' = NoCell
                       /\ digit' = 0
                       /\ result' = result
       ELSE /\ stack' = Append(stack, [cell |-> cell, digit |-> digit])
            /\ sudoku_state' = place_digit(variant, sudoku_state, cell[1], cell[2], digit)
            /\ pc' = "enter"
            /\ cell' = NoCell
            /\ digit' = 0
            /\ result' = result
  /\ UNCHANGED <<variant, sudoku, entered, popped>>

\* the for loop is over: return None
LoopEnd ==
  /\ pc = "loop"
  /\ digit > n
  /\ pc' = "failed"
  /\ UNCHANGED <<variant, sudoku, sudoku_state, stack, cell, digit, result, entered, placed, popped>>

\* mutant: after the revert the loop tries the same digit again
Backtrack_same_digit ==
  /\ pc = "failed"
  /\ stack # <<>>
  /\ variant = "final"
  /\ LET f == stack[Len(stack)]
     IN  /\ stack' = SubSeq(stack, 1, Len(stack) - 1)
         /\ sudoku_state' = revert_state(variant, sudoku_state, f.cell[1], f.cell[2], f.digit)
         /\ cell' = f.cell
         /\ digit' = f.digit
         /\ pc' = "loop"
  /\ UNCHANGED <<variant, sudoku, result, entered, placed, popped>>

\* mutant: after the revert the loop is over, no further digit is tried
Backtrack_gives_up ==
  /\ pc = "failed"
  /\ stack # <<>>
  /\ variant = "approach2"
  /\ LET f == stack[Len(stack)]
         c == copy_revert_state(variant, f.new_state, f.cell[1], f.cell[2])
     IN  /\ stack' = SubSeq(stack, 1, Len(stack) - 1)
         /\ sudoku_state' = c.state
         /\ cell' = f.cell
         /\ digit' = n + 1
         /\ pc' = "loop"
  /\ UNCHANGED <<variant, sudoku, result, entered, placed, popped>>

\* the caller got None: revert and go on with the next digit.  newstate
\* calls revert_state(row, col, digit) on a method that takes (row, col):
\* TypeError, which "except ValueError" does not catch
Backtrack ==
  /\ pc = "failed"
  /\ stack # <<>>
  /\ LET f == stack[Len(stack)]
     IN  /\ stack' = SubSeq(stack, 1, Len(stack) - 1)
         /\ CASE variant = "newstate" ->
                   /\ pc' = "raised"
                   /\ UNCHANGED <<sudoku_state, cell, digit, result>>
              [] variant = "approach2" ->
                   LET c == copy_revert_state(variant, f.new_state, f.cell[1], f.cell[2])
                   IN  IF c.duplicate
                         THEN /\ pc' = "done"
                              /\ result' = invalid_sudoku
                              /\ UNCHANGED <<sudoku_state, cell, digit>>
                         ELSE /\ sudoku_state' = c.state
                              /\ cell' = f.cell
                              /\ digit' = f.digit + 1
                              /\ pc' = "loop"
                              /\ result' = result
              [] OTHER ->
                   /\ sudoku_state' = revert_state(variant, sudoku_state,
                                                   f.cell[1], f.cell[2], f.digit)
                   /\ cell' = f.cell
                   /\ digit' = f.digit + 1
                   /\ pc' = "loop"
                   /\ result' = result
  /\ UNCHANGED <<variant, sudoku, entered, placed, popped>>

\* the outermost call returned None: invalid_sudoku
RootFail ==
  /\ pc = "failed"
  /\ stack = <<>>
  /\ result' = invalid_sudoku
  /\ pc' = "done"
  /\ UNCHANGED <<variant, sudoku, sudoku_state, stack, cell, digit, entered, placed, popped>>

\* mutant: the caller undoes its placement although it got a state
ReturnFound_undoes ==
  /\ pc = "found"
  /\ stack # <<>>
  /\ variant = "final"
  /\ LET f == stack[Len(stack)]
     IN  /\ stack' = SubSeq(stack, 1, Len(stack) - 1)
         /\ sudoku_state' = final_undo(sudoku_state, f.cell[1], f.cell[2], f.digit)
         /\ cell' = f.cell
         /\ digit' = f.digit
  /\ UNCHANGED <<variant, sudoku, pc, result, entered, placed, popped>>

\* the caller got a state: return it, nothing is reverted
ReturnFound ==
  /\ pc = "found"
  /\ stack # <<>>
  /\ stack' = SubSeq(stack, 1, Len(stack) - 1)
  /\ cell' = stack[Len(stack)].cell
  /\ digit' = stack[Len(stack)].digit
  /\ UNCHANGED <<variant, sudoku, sudoku_state, pc, result, entered, placed, popped>>

\* the outermost call returned the goal state: its board is the result
RootFound ==
  /\ pc = "found"
  /\ stack = <<>>
  /\ result' = sudoku_state.board
  /\ pc' = "done"
  /\ UNCHANGED <<variant, sudoku, sudoku_state, stack, cell, digit, entered, placed, popped>>

Next ==
  \/ Construct
  \/ Goal
  \/ ChooseCell
  \/ SkipDigit
  \/ PlaceDigit
  \/ LoopEnd
  \/ Backtrack
  \/ RootFail
  \/ ReturnFound
  \/ RootFound

InitFinal == Init({"final"}, Inputs)
SpecFinal == InitFinal /\ [][Next]_vars

InitApproach1 == Init({"approach1"}, Inputs)
SpecApproach1 == InitApproach1 /\ [][Next]_vars

InitWithHeap == Init({"with_heap"}, Inputs)
SpecWithHeap == InitWithHeap /\ [][Next]_vars

InitApproach3 == Init({"approach3"}, Inputs)
SpecApproach3 == InitApproach3 /\ [][Next]_vars

InitApproach2 == Init({"approach2"}, DenseInputs)
SpecApproach2 == InitApproach2 /\ [][Next]_vars

InitNewState == Init({"newstate"}, Inputs)
SpecNewState == InitNewState /\ [][Next]_vars

InitPlaceUndo == Init({"approach1", "with_heap"}, Inputs)
SpecPlaceUndo == InitPlaceUndo /\ [][Next]_vars

InitRejection == Init({"final", "approach1"}, Inputs)
SpecRejection == InitRejection /\ [][Next]_vars

(***************************************************************************)
(* Vocabulary of the properties.                                           *)
(***************************************************************************)
RowCells(r) == {<<r, c>> : c \in Rows}
ColCells(c) == {<<r, c>> : r \in Rows}
BoxCells(k) == {x \in Cells : grid_key(x[1], x[2]) = k}
Units == {RowCells(r) : r \in Rows} \cup {ColCells(c) : c \in Rows}
           \cup {BoxCells(k) : k \in GridKeys}

\* every row, column and sub grid holds each digit exactly once
IsSolved(g) == \A u \in Units : {g[x] : x \in u} = Digits

\* every clue of the input is still there
Preserves(input, g) == \A x \in Cells : input[x] # 0 => g[x] = input[x]

RowPermutations == {q \in [Rows -> Digits] : \A i, j \in Rows : i # j => q[i] # q[j]}

\* the row q can follow the rows rs: no digit twice in a column, nor in a
\* sub grid
Compatible(rs, q) ==
  \A i \in 1..Len(rs) : \A c, d \in Rows :
    (c = d \/ grid_key(i - 1, c) = grid_key(Len(rs), d)) => rs[i][c] # q[d]

RECURSIVE SolvedRows(_)
SolvedRows(k) ==
  IF k = 0 THEN {<<>>}
  ELSE {Append(e[1], e[2]) :
          e \in {f \in SolvedRows(k - 1) \X RowPermutations : Compatible(f[1], f[2])}}

\* all solved grids, built row by row
Solutions == {[x \in Cells |-> rs[x[1] + 1][x[2]]] : rs \in SolvedRows(n)}

Completions(input) == {s \in Solutions : Preserves(input, s)}
HasCompletion(input) == Completions(input) # {}

\* some digit occurs twice among the clues of a row, a column or a sub grid
HasDuplicate(input) ==
  \E u \in Units : \E x, y \in u : x # y /\ input[x] # 0 /\ input[x] = input[y]

(***************************************************************************)
(* Properties.                                                             *)
(***************************************************************************)
\* C1 (soundness, sudoku_final_solution.py): a returned grid that is not the
\* all -1 grid has each digit exactly once in every row, column and sub grid,
\* and every clue of the input has kept its value.
C1_Soundness ==
  (pc = "done" /\ result # invalid_sudoku)
    => (IsSolved(result) /\ Preserves(sudoku, result))

C1_Witness ==
  /\ pc = "done"
  /\ result # invalid_sudoku
  /\ placed
  /\ \E x \in Cells : sudoku[x] # 0

\* C2 (completeness, sudoku_final_solution.py): for an input with at least
\* one valid completion the solver returns one of its valid completions,
\* never the all -1 grid.
C2_Completeness ==
  (pc = "done" /\ HasCompletion(sudoku)) => result \in Completions(sudoku)

C2_Witness ==
  /\ pc = "done"
  /\ placed
  /\ Cardinality(Completions(sudoku)) = 1

\* C3 (rejection, sudoku_final_solution.py and sudoku_approach1.py): an input
\* with a duplicate clue in a row, column or sub grid is answered with the
\* all -1 grid during construction: depth_first_search is never entered and
\* no digit is ever placed.
C3_Rejection ==
  HasDuplicate(sudoku) =>
    /\ ~entered
    /\ ~placed
    /\ sudoku_state.board = sudoku
    /\ pc \in {"start", "done"}
    /\ pc = "done" => result = invalid_sudoku

C3_Witness ==
  /\ pc = "done"
  /\ variant = "approach1"
  /\ HasDuplicate(sudoku)
  /\ \A r \in Rows : \A x, y \in RowCells(r) : x # y /\ sudoku[x] # 0 => sudoku[x] # sudoku[y]
  /\ \A c \in Rows : \A x, y \in ColCells(c) : x # y /\ sudoku[x] # 0 => sudoku[x] # sudoku[y]

\* Where the search stands: one number per depth_first_search activation,
\* outermost first.  A suspended activation counts 2 * digit + 1, the active
\* one 1 before its cell is chosen, 2 * digit in the loop, and more than any
\* of these once it has returned.
PcCode ==
  CASE pc = "start" -> 0
    [] pc = "enter" -> 1
    [] pc = "loop" -> 2 * digit
    [] pc = "failed" -> 2 * n + 3
    [] pc = "found" -> 2 * n + 4
    [] pc \in {"done", "raised"} -> 2 * n + 5

Position ==
  [i \in 1..(Len(stack) + 1) |-> IF i <= Len(stack) THEN 2 * stack[i].digit + 1 ELSE PcCode]

\* lexicographic order
LexLess(a, b) ==
  \E i \in 1..Len(a) : i <= Len(b) /\ a[i] < b[i] /\ \A j \in 1..(i - 1) : a[j] = b[j]

Unsolvable == ~HasDuplicate(sudoku) /\ ~HasCompletion(sudoku)

\* C4 (exhaustion, sudoku_final_solution.py): for an input without duplicate
\* clue and without valid completion the search ends and the solver returns
\* the all -1 grid.  Termination is stated with a variant: every step moves
\* Position up in the lexicographic order, Position has at most n * n + 1
\* entries out of 0..2n+5 (so there is no infinite place/undo cycle), the
\* solver can always take a step until it has returned, and what it returns
\* is the all -1 grid.
C4_Exhaustion ==
  [][Unsolvable =>
       /\ LexLess(Position, Position')
       /\ Len(stack') <= n * n
       /\ pc' # "done" => (ENABLED Next)'
       /\ pc' = "done" => result' = invalid_sudoku]_vars

C4_Witness ==
  /\ pc = "done"
  /\ ~HasDuplicate(sudoku)
  /\ ~HasCompletion(sudoku)
  /\ placed
  /\ result = invalid_sudoku

\* the state after place_digit(row, col, val) then revert_state(row, col, val)
PlaceThenRevert(v, st, row, col, val) ==
  revert_state(v, place_digit(v, st, row, col, val), row, col, val)

\* C5 (place/undo round trip, sudoku_approach1.py and sudoku_with_heap.py):
\* for the chosen empty cell and every digit that is_unsolvable lets through,
\* place_digit followed by revert_state with the same arguments gives back
\* row_to_seen_vals, col_to_seen_vals, the sub grid sets, empty_cells and the
\* board exactly as they were; in particular the cell is 0 again.
C5_RoundTrip ==
  (pc = "loop" /\ sudoku_state.board[cell] = 0) =>
    \A d \in Digits :
      ~is_unsolvable(sudoku_state, cell[1], cell[2], d) =>
        LET after == PlaceThenRevert(variant, sudoku_state, cell[1], cell[2], d)
        IN  /\ after.row_to_seen_vals = sudoku_state.row_to_seen_vals
            /\ after.col_to_seen_vals = sudoku_state.col_to_seen_vals
            /\ after.grid_to_cells = sudoku_state.grid_to_cells
            /\ after.empty_cells = sudoku_state.empty_cells
            /\ after.board = sudoku_state.board

\* I1: every digit on the board is in the seen sets of its row, its column
\* and its sub grid
I1(st) ==
  \A x \in Cells :
    st.board[x] # 0 =>
      /\ st.board[x] \in st.row_to_seen_vals[x[1]]
      /\ st.board[x] \in st.col_to_seen_vals[x[2]]
      /\ st.board[x] \in st.grid_to_cells[grid_key(x[1], x[2])]

\* I2: empty_cells holds, without duplicates, exactly the cells whose board
\* value is 0
I2(st) ==
  /\ \A i, j \in 1..Len(st.empty_cells) : i # j => st.empty_cells[i] # st.empty_cells[j]
  /\ {st.empty_cells[i] : i \in 1..Len(st.empty_cells)} = {x \in Cells : st.board[x] = 0}

\* C6 (invariants I1 and I2, sudoku_approach3_samestate_heap.py): after a
\* successful construction, between any two of the place_digit / revert_state
\* calls that depth_first_search makes, I1 and I2 hold, although place_digit
\* removes from the heap list with list.remove and revert_state re-inserts
\* with heappush.
C6_Invariants ==
  (variant = "approach3" /\ entered) => (I1(sudoku_state) /\ I2(sudoku_state))

\* a digit placed at the outermost level was reverted, and the heap list is
\* no longer in the order the construction left it in
C6_Witness ==
  /\ variant = "approach3"
  /\ entered
  /\ placed
  /\ pc = "loop"
  /\ stack = <<>>
  /\ sudoku_state.empty_cells # construct(variant, sudoku).state.empty_cells

\* One run of sudoku_approach2_min_row_col.py in which set.pop always gives
\* the smallest cell of the set: reference_search is depth_first_search,
\* reference_loop its for loop from digit on.  The outcome is "state" with
\* the goal board, "none", or "raised" for a ValueError.
RECURSIVE reference_search(_)
RECURSIVE reference_loop(_, _, _)
reference_search(st) ==
  IF is_goal_state("approach2", st) THEN [kind |-> "state", board |-> st.board]
  ELSE LET outcomes == choose_cell("approach2", st)
           o == CHOOSE x \in outcomes :
                  \A y \in outcomes : x.cell = y.cell \/ tuple_lt(x.cell, y.cell)
       IN  reference_loop(o.state, o.cell, 1)

reference_loop(st, c, d) ==
  IF d > n THEN [kind |-> "none", board |-> st.board]
  ELSE IF is_unsolvable(st, c[1], c[2], d) THEN reference_loop(st, c, d + 1)
  ELSE LET new_state == copy_place_digit("approach2", st, c[1], c[2], d)
           deep_state == reference_search(new_state.state)
           reverted == copy_revert_state("approach2", new_state.state, c[1], c[2])
       IN  IF new_state.duplicate THEN [kind |-> "raised", board |-> st.board]
           ELSE IF deep_state.kind # "none" THEN deep_state
           ELSE IF reverted.duplicate THEN [kind |-> "raised", board |-> st.board]
           ELSE reference_loop(reverted.state, c, d + 1)

\* what sudoku_solver returns in that run
reference_solver(grid) ==
  LET initial_state == construct("approach2", grid)
      goal_state == reference_search(initial_state.state)
  IN  IF initial_state.duplicate THEN invalid_sudoku
      ELSE IF goal_state.kind = "state" THEN goal_state.board
      ELSE invalid_sudoku

\* C7 as stated (determinism, sudoku_approach2_min_row_col.py): whatever cell
\* set.pop returns at each step, the output for an input is the same in
\* every run, also for inputs with more than one valid completion; so every
\* run returns what the run that always pops the smallest cell returns.
C7_Determinism ==
  pc = "done" => result = reference_solver(sudoku)

\* C7 amended: the output is the same in every run, whatever set.pop
\* returns, for the inputs that have at most one valid completion.
C7_DeterminismUnique ==
  (pc = "done" /\ Cardinality(Completions(sudoku)) <= 1) =>
    result = reference_solver(sudoku)

\* a run that took an arbitrarily popped cell and solved an input with
\* exactly one completion
C7_Witness ==
  /\ pc = "done"
  /\ popped
  /\ placed
  /\ result # invalid_sudoku
  /\ Cardinality(Completions(sudoku)) = 1

\* C8 (backtracking step, sudoku_approach1_newstate.py): when the recursive
\* call made after place_digit(row, col, digit) returns failure, the solver
\* reverts the cell to empty and goes on with the next digit of the same
\* cell, so that the call ends by a return and not by an uncaught exception.
C8_Backtracking ==
  [][(pc = "failed" /\ stack # <<>>) =>
       /\ pc' = "loop"
       /\ cell' = stack[Len(stack)].cell
       /\ digit' = stack[Len(stack)].digit + 1
       /\ sudoku_state'.board[cell'] = 0]_vars

\* the number of empty cells of a row of the board
empty_count(st, row) == Cardinality({x \in RowCells(row) : st.board[x] = 0})

\* C9 (selection-order independence, sudoku_approach2_min_row_col.py):
\* whichever cell choose_cell returns at each step, it is an empty cell,
\* and the solver returns a valid completion that preserves the clues when
\* the input has one and the all -1 grid otherwise.
C9_SelectionIndependence ==
  /\ (pc = "enter" /\ ~is_goal_state(variant, sudoku_state)) =>
        /\ choose_cell(variant, sudoku_state) # {}
        /\ \A o \in choose_cell(variant, sudoku_state) : sudoku_state.board[o.cell] = 0
  /\ pc = "done" =>
        IF HasCompletion(sudoku) THEN result \in Completions(sudoku)
                                 ELSE result = invalid_sudoku

\* a run that took an arbitrarily popped cell and solved an input with
\* several completions
C9_Witness ==
  /\ pc = "done"
  /\ popped
  /\ placed
  /\ result \in Completions(sudoku)
  /\ Cardinality(Completions(sudoku)) > 1

\* C10 (most-constrained row, sudoku_approach2_min_row_col.py): on a freshly
\* constructed state with an empty cell, choose_cell returns an empty cell
\* of a row whose number of empty cells is minimal among the rows that have
\* an empty cell.
C10_MostConstrainedRow ==
  (pc = "enter" /\ ~is_goal_state(variant, sudoku_state)) =>
    \A o \in choose_cell(variant, sudoku_state) :
      /\ sudoku_state.board[o.cell] = 0
      /\ \A r \in Rows :
           empty_count(sudoku_state, r) > 0 =>
             empty_count(sudoku_state, o.cell[1]) <= empty_count(sudoku_state, r)

\* the cells of empty_cells, and the number of empty cells of a column of
\* the board
empty_cell_set(st) == {st.empty_cells[i] : i \in 1..Len(st.empty_cells)}
empty_in_col(st, col) == Cardinality({x \in ColCells(col) : st.board[x] = 0})

\* C11 (column-minimum selection, sudoku_approach3_samestate_heap.py): in
\* every state the search reaches, col_to_missing_rows[c] is exactly the set
\* of rows whose cell in column c is empty, and in a state that is not a goal
\* state choose_cell returns a cell of empty_cells whose column has the
\* fewest empty cells among the columns of all empty cells.
C11_ColumnMinimum ==
  (variant = "approach3" /\ entered) =>
    /\ \A c \in Rows :
         sudoku_state.col_to_missing_rows[c] = {r \in Rows : sudoku_state.board[<<r, c>>] = 0}
    /\ ~is_goal_state(variant, sudoku_state) =>
         \A o \in choose_cell(variant, sudoku_state) :
           /\ o.cell \in empty_cell_set(sudoku_state)
           /\ sudoku_state.board[o.cell] = 0
           /\ \A x \in empty_cell_set(sudoku_state) :
                empty_in_col(sudoku_state, o.cell[2]) <= empty_in_col(sudoku_state, x[2])

\* after the first placement, the chosen cell is not the head of the heap
\* list: its column has fewer empty cells than the head's column
C11_Witness ==
  /\ variant = "approach3"
  /\ pc = "enter"
  /\ placed
  /\ Len(stack) = 1
  /\ ~is_goal_state(variant, sudoku_state)
  /\ \E o \in choose_cell(variant, sudoku_state) :
       empty_in_col(sudoku_state, o.cell[2])
         < empty_in_col(sudoku_state, sudoku_state.empty_cells[1][2])

\* the digit val is on the board at the cell x, in the three seen sets of x,
\* and x is not in empty_cells
InPlace(st, x, val) ==
  /\ st.board[x] = val
  /\ val \in st.row_to_seen_vals[x[1]]
  /\ val \in st.col_to_seen_vals[x[2]]
  /\ val \in st.grid_to_cells[grid_key(x[1], x[2])]
  /\ x \notin empty_cell_set(st)

\* the cells that are empty in the input
InputEmpty == {x \in Cells : sudoku[x] = 0}

\* C12 (success is propagated without undo, sudoku_final_solution.py): from
\* the moment an activation of depth_first_search sees empty_cells empty and
\* returns the grid, nothing is placed or undone until sudoku_solver
\* returns: the state stays as it is, every digit of a pending activation is
\* in place, and at the return every cell that was empty in the input holds
\* its digit in the returned grid, in the three seen sets, and is not in
\* empty_cells.
C12_SuccessPropagation ==
  [][(variant = "final" /\ pc = "found") =>
       /\ sudoku_state' = sudoku_state
       /\ pc' \in {"found", "done"}
       /\ sudoku_state.empty_cells = <<>>
       /\ \A i \in 1..Len(stack) : InPlace(sudoku_state, stack[i].cell, stack[i].digit)
       /\ pc' = "done" =>
            /\ result' = sudoku_state'.board
            /\ \A x \in InputEmpty :
                 result'[x] \in Digits /\ InPlace(sudoku_state', x, result'[x])]_vars

\* success is on its way up: some activation has already returned the grid
\* to its caller, others are still pending
C12_Witness ==
  /\ variant = "final"
  /\ pc = "found"
  /\ stack # <<>>
  /\ Len(stack) < Cardinality(InputEmpty)

\* the number of placements in effect: digits the search has put into cells
\* that were empty in the input and has not undone
placements_in_effect == Cardinality({x \in InputEmpty : sudoku_state.board[x] # 0})

\* C13 as stated (bounded search depth, sudoku_final_solution.py): at every
\* moment of a solve the number of placements in effect equals the nesting
\* depth of depth_first_search below the root call, equals the number of
\* cells empty in the input minus len(empty_cells), and is at most the
\* number of cells empty in the input.
C13_DepthEqualsPlacements ==
  (variant = "final" /\ entered /\ pc # "done") =>
    /\ placements_in_effect = Len(stack)
    /\ placements_in_effect = Cardinality(InputEmpty) - Len(sudoku_state.empty_cells)
    /\ placements_in_effect <= Cardinality(InputEmpty)

\* C13 amended: the nesting depth never exceeds the number of placements in
\* effect, which equals the number of cells empty in the input minus
\* len(empty_cells) and is at most the number of cells empty in the input;
\* the depth equals the number of placements as long as no activation has
\* returned the grid, and while the grid is returned upward all placements
\* stay in effect.
C13_BoundedDepth ==
  (variant = "final" /\ entered) =>
    /\ Len(stack) <= placements_in_effect
    /\ placements_in_effect = Cardinality(InputEmpty) - Len(sudoku_state.empty_cells)
    /\ placements_in_effect <= Cardinality(InputEmpty)
    /\ pc \in {"enter", "loop", "failed"} => Len(stack) = placements_in_effect
    /\ pc = "found" => placements_in_effect = Cardinality(InputEmpty)

\* the bound is attained: the search is as deep as the input has empty
\* cells, at least three
C13_Witness ==
  /\ variant = "final"
  /\ pc = "enter"
  /\ Len(stack) = Cardinality(InputEmpty)
  /\ Len(stack) >= 3
  /\ placements_in_effect = Len(stack)

\* the row-major number of a cell
cell_number(x) == x[1] * n + x[2]

\* the grid a comes before the grid b when the cells that are empty in the
\* input are compared from the last one in row-major order to the first
ReverseRowMajorLess(a, b) ==
  \E x \in InputEmpty :
    /\ a[x] < b[x]
    /\ \A y \in InputEmpty : cell_number(y) > cell_number(x) => a[y] = b[y]

\* the same with the first empty cell in row-major order the most significant
RowMajorLess(a, b) ==
  \E x \in InputEmpty :
    /\ a[x] < b[x]
    /\ \A y \in InputEmpty : cell_number(y) < cell_number(x) => a[y] = b[y]

\* C14 (first-found solution, sudoku_final_solution.py): for an input with
\* at least one valid completion the returned grid is the smallest valid
\* completion in the order that compares the initially empty cells in
\* reverse row-major order, the last empty cell being the most significant.
C14_FirstFound ==
  (variant = "final" /\ pc = "done" /\ HasCompletion(sudoku)) =>
    /\ result \in Completions(sudoku)
    /\ \A s \in Completions(sudoku) : s = result \/ ReverseRowMajorLess(result, s)

\* an input with several completions, and the returned one is not the
\* smallest in plain row-major order
C14_Witness ==
  /\ variant = "final"
  /\ pc = "done"
  /\ placed
  /\ result \in Completions(sudoku)
  /\ \E s \in Completions(sudoku) : RowMajorLess(s, result)

\* C15 (input grid unchanged on failure, sudoku_final_solution.py): the
\* board of the state is the caller's grid, written in place; whenever the
\* solver returns the all -1 grid, after a duplicate clue or after the
\* search is exhausted at the root, every cell of the caller's grid has the
\* value it had before the call.
C15_InputUnchangedOnFailure ==
  (variant = "final" /\ pc = "done" /\ result = invalid_sudoku) =>
    sudoku_state.board = sudoku

\* the search wrote digits into the grid and was exhausted at the root
C15_Witness ==
  /\ variant = "final"
  /\ pc = "done"
  /\ result = invalid_sudoku
  /\ entered
  /\ placed
  /\ sudoku_state.board = sudoku
  /\ InputEmpty # {}

====
